---- MODULE Spec2Model ----
\* Task tracker of src/main.py: a User owns Projects, a Project owns an ordered
\* list of Tasks.  Task objects live in a heap (a reference is an index into
\* it), the User's projects are a sequence of Project objects, and every call
\* of the public API is one action.  `ret` holds what the latest call was and
\* what it returned; `run`, `hist` and `shared` are history variables that the
\* properties read and no operation of the program reads.
EXTENDS Integers, Sequences, FiniteSets, TLC

VARIABLES now, heap, user_projects, ret, run, hist, shared

vars == <<now, heap, user_projects, ret, run, hist, shared>>

\* ---------------------------------------------------------------- bounds
MaxTasks == 2
MaxProjects == 2
MaxLen == 3
MaxTime == 2
MaxRun == 2

\* ---------------------------------------------------------------- values
\* Optional[datetime]: None is the empty sequence, a timestamp t is <<t>>.
None == <<>>
Some(t) == <<t>>

ALLOWED_PRIORITIES == <<"Low", "Medium", "High">>

Allowed == {ALLOWED_PRIORITIES[i] : i \in DOMAIN ALLOWED_PRIORITIES}

\* Priority strings a caller may pass: the allowed ones and one other.
PriorityInputs == Allowed \cup {"Urgent"}

Titles == {"T1"}
Descriptions == {"D1", "D2"}
DueDates == {None} \cup {Some(d) : d \in 1..(MaxTime - 1)}

Range(s) == {s[i] : i \in DOMAIN s}
Min(a, b) == IF a < b THEN a ELSE b

\* ------------------------------------------------------ history helpers
\* op: the call; obj: the Task or Project it was made on (0: none); prio, id:
\* its string and identifier arguments; val: the list it returned; raised:
\* whether it raised ValueError; alias: the project whose internal list the
\* returned list object is (0: a fresh list); out: what it printed.
Ret(op, obj, prio, id, val, raised, alias, out) ==
    [op |-> op, obj |-> obj, prio |-> prio, id |-> id, val |-> val,
     raised |-> raised, alias |-> alias, out |-> out]

Call(op, obj) == Ret(op, obj, "", 0, <<>>, FALSE, 0, "")

\* The current run of consecutive calls on one Task: marks mark_as_done calls
\* (the first at time `first`, the latest at `last`) followed by reopens reopen
\* calls, both counted up to MaxRun.  Any other call ends the run.
NoRun == [task |-> 0, marks |-> 0, reopens |-> 0, first |-> 0, last |-> 0]

RunMark(t) ==
    IF run.task = t /\ run.reopens = 0
    THEN [run EXCEPT !.marks = Min(@ + 1, MaxRun), !.last = now]
    ELSE [task |-> t, marks |-> 1, reopens |-> 0, first |-> now, last |-> now]

RunReopen(t) ==
    IF run.task = t
    THEN [run EXCEPT !.reopens = Min(@ + 1, MaxRun)]
    ELSE [task |-> t, marks |-> 0, reopens |-> 1, first |-> 0, last |-> 0]

\* The references held by some project of the user.
Owned == UNION {Range(user_projects[p]._tasks) : p \in DOMAIN user_projects}

\* ------------------------------------------------------------------ Task
\* Task.__init__: validation first, then the fields.  uid is the fresh uuid4
\* and clock the value of datetime.now().
TaskNew(title, description, priority, due_date, uid, clock) ==
    IF priority \notin Allowed
    THEN [raised |-> TRUE, task |-> <<>>]
    ELSE [raised |-> FALSE,
          task |-> <<[id |-> uid,
                      title |-> title,
                      description |-> description,
                      is_done |-> FALSE,
                      priority |-> priority,
                      due_date |-> due_date,
                      created_at |-> clock,
                      completed_at |-> None]>>]

\* Variant: a guard against re-marking keeps the first timestamp.
MarkDoneGuarded(task, clock) ==
    IF task.is_done THEN task
    ELSE [task EXCEPT !.is_done = TRUE, !.completed_at = Some(clock)]

MarkDone(task, clock) ==
    [task EXCEPT !.is_done = TRUE, !.completed_at = Some(clock)]

\* Variant: the flag is reset and the timestamp is left behind.
ReopenedKeepStamp(task) ==
    [task EXCEPT !.is_done = FALSE]

Reopened(task) ==
    [task EXCEPT !.is_done = FALSE, !.completed_at = None]

\* Variant: the assignment comes before the validation.
SetPriorityAssignFirst(task, new_priority) ==
    [raised |-> new_priority \notin Allowed,
     task |-> [task EXCEPT !.priority = new_priority]]

\* Variant: no validation at all.
SetPriorityNoCheck(task, new_priority) ==
    [raised |-> FALSE, task |-> [task EXCEPT !.priority = new_priority]]

SetPriority(task, new_priority) ==
    IF new_priority \notin Allowed
    THEN [raised |-> TRUE, task |-> task]
    ELSE [raised |-> FALSE, task |-> [task EXCEPT !.priority = new_priority]]

TaskInit(title, description, priority, due_date) ==
    /\ Len(heap) < MaxTasks
    /\ LET r == TaskNew(title, description, priority, due_date, Len(heap) + 1, now)
       IN /\ heap' = heap \o r.task
          /\ ret' = Ret("Task", IF r.raised THEN 0 ELSE Len(heap) + 1,
                        priority, 0, <<>>, r.raised, 0, "")
    /\ run' = NoRun
    /\ UNCHANGED <<now, user_projects, hist, shared>>

mark_as_done(t) ==
    /\ t \in DOMAIN heap
    /\ heap' = [heap EXCEPT ![t] = MarkDone(@, now)]
    /\ ret' = Call("mark_as_done", t)
    /\ run' = RunMark(t)
    /\ UNCHANGED <<now, user_projects, hist, shared>>

change_description(t, new_description) ==
    /\ t \in DOMAIN heap
    /\ heap' = [heap EXCEPT ![t].description = new_description]
    /\ ret' = Call("change_description", t)
    /\ run' = NoRun
    /\ UNCHANGED <<now, user_projects, hist, shared>>

set_priority(t, new_priority) ==
    /\ t \in DOMAIN heap
    /\ LET r == SetPriority(heap[t], new_priority)
       IN /\ heap' = [heap EXCEPT ![t] = r.task]
          /\ ret' = Ret("set_priority", t, new_priority, 0, <<>>, r.raised, 0, "")
    /\ run' = NoRun
    /\ UNCHANGED <<now, user_projects, hist, shared>>

update_due_date(t, new_due_date) ==
    /\ t \in DOMAIN heap
    /\ heap' = [heap EXCEPT ![t].due_date = new_due_date]
    /\ ret' = Call("update_due_date", t)
    /\ run' = NoRun
    /\ UNCHANGED <<now, user_projects, hist, shared>>

reopen(t) ==
    /\ t \in DOMAIN heap
    /\ heap' = [heap EXCEPT ![t] = Reopened(@)]
    /\ ret' = Call("reopen", t)
    /\ run' = RunReopen(t)
    /\ UNCHANGED <<now, user_projects, hist, shared>>

\* datetime.now() advances between calls.
Tick ==
    /\ now < MaxTime
    /\ now' = now + 1
    /\ ret' = Call("tick", 0)
    /\ UNCHANGED <<heap, user_projects, run, hist, shared>>

Init ==
    /\ now = 0
    /\ heap = <<>>
    /\ user_projects = <<>>
    /\ ret = Call("User", 0)
    /\ run = NoRun
    /\ hist = <<>>
    /\ shared = FALSE

\* ---------------------------------------------------- Task specification
NextTask ==
    \/ \E ti \in Titles, d \in Descriptions, p \in PriorityInputs, due \in DueDates :
          TaskInit(ti, d, p, due)
    \/ \E t \in 1..MaxTasks : mark_as_done(t)
    \/ \E t \in 1..MaxTasks : reopen(t)
    \/ \E t \in 1..MaxTasks, p \in PriorityInputs : set_priority(t, p)
    \/ \E t \in 1..MaxTasks, d \in Descriptions : change_description(t, d)
    \/ \E t \in 1..MaxTasks, due \in DueDates : update_due_date(t, due)
    \/ Tick

\* The Task operations alone, with every input.
SpecTask == Init /\ [][NextTask]_vars

\* --------------------------------------------------------------- Project
\* Variant: the task list is a default argument shared by every Project, so a
\* new Project starts with what the first one holds.
ProjectNewSharedList(title, description, uid) ==
    [id |-> uid, title |-> title, description |-> description,
     _tasks |-> IF user_projects = <<>> THEN <<>> ELSE user_projects[1]._tasks]

\* Project.__init__.  Project.created_at is written here once and read by no
\* operation; the record leaves it out.
ProjectNew(title, description, uid) ==
    [id |-> uid, title |-> title, description |-> description, _tasks |-> <<>>]

\* Variant: the tasks accessor hands out the internal list itself.
ProjectTasksNoCopy(p) ==
    [val |-> user_projects[p]._tasks, alias |-> p]

\* Project.tasks: list(self._tasks), a new list object with the same elements.
ProjectTasks(p) ==
    [val |-> user_projects[p]._tasks, alias |-> 0]

AddTask(ts, t) == Append(ts, t)

RECURSIVE RemoveScan(_, _, _)
\* The loop of Project.remove_task from index i on: delete at the first match
\* and return, or fall out of the loop and print the notice.
RemoveScan(ts, task_id, i) ==
    IF i > Len(ts)
    THEN [tasks |-> ts, out |-> "not found"]
    ELSE IF heap[ts[i]].id = task_id
         THEN [tasks |-> SubSeq(ts, 1, i - 1) \o SubSeq(ts, i + 1, Len(ts)),
               out |-> ""]
         ELSE RemoveScan(ts, task_id, i + 1)

RECURSIVE RemoveScanBack(_, _, _)
RemoveScanBack(ts, task_id, i) ==
    IF i < 1
    THEN [tasks |-> ts, out |-> "not found"]
    ELSE IF heap[ts[i]].id = task_id
         THEN [tasks |-> SubSeq(ts, 1, i - 1) \o SubSeq(ts, i + 1, Len(ts)),
               out |-> ""]
         ELSE RemoveScanBack(ts, task_id, i - 1)

\* Variant: the scan runs from the end, so the last match is deleted.
RemoveTaskLast(ts, task_id) == RemoveScanBack(ts, task_id, Len(ts))

RemoveTask(ts, task_id) == RemoveScan(ts, task_id, 1)

add_task(p, t) ==
    /\ p \in DOMAIN user_projects
    /\ t \in DOMAIN heap
    /\ Len(user_projects[p]._tasks) < MaxLen
    /\ user_projects' = [user_projects EXCEPT ![p]._tasks = AddTask(@, t)]
    /\ ret' = Call("add_task", p)
    /\ hist' = [hist EXCEPT ![p].log = IF hist[p].pure THEN Append(@, t) ELSE @]
    /\ shared' = (shared \/ t \in Owned)
    /\ run' = NoRun
    /\ UNCHANGED <<now, heap>>

remove_task(p, task_id) ==
    /\ p \in DOMAIN user_projects
    /\ LET r == RemoveTask(user_projects[p]._tasks, task_id)
       IN /\ user_projects' = [user_projects EXCEPT ![p]._tasks = r.tasks]
          /\ ret' = Ret("remove_task", p, "", task_id, <<>>, FALSE, 0, r.out)
          /\ hist' = IF r.tasks = user_projects[p]._tasks
                     THEN hist
                     ELSE [hist EXCEPT ![p] = [log |-> <<>>, pure |-> FALSE]]
    /\ run' = NoRun
    /\ UNCHANGED <<now, heap, shared>>

\* A caller reads project.tasks.
read_tasks(p) ==
    /\ p \in DOMAIN user_projects
    /\ LET r == ProjectTasks(p)
       IN ret' = Ret("tasks", p, "", 0, r.val, FALSE, r.alias, "")
    /\ run' = NoRun
    /\ UNCHANGED <<now, heap, user_projects, hist, shared>>

Reverse(s) == [i \in DOMAIN s |-> s[Len(s) + 1 - i]]

\* The caller changes the list object it got from project.tasks; when that
\* object is a project's internal list, the project changes with it.
Mutated(new) ==
    /\ ret' = Ret("mutate", ret.obj, "", 0, <<>>, FALSE, ret.alias, "")
    /\ user_projects' = IF ret.alias = 0
                        THEN user_projects
                        ELSE [user_projects EXCEPT ![ret.alias]._tasks = new]
    /\ run' = NoRun
    /\ UNCHANGED <<now, heap, hist, shared>>

MutateReturned ==
    /\ ret.op = "tasks"
    /\ \/ \E t \in DOMAIN heap : Mutated(Append(ret.val, t))
       \/ ret.val # <<>> /\ Mutated(Tail(ret.val))
       \/ Len(ret.val) >= 2 /\ Mutated(Reverse(ret.val))

\* ------------------------------------------------------------------ User
create_project(title, description) ==
    /\ Len(user_projects) < MaxProjects
    /\ user_projects' = Append(user_projects,
                               ProjectNew(title, description,
                                          Len(user_projects) + 1))
    /\ ret' = Call("create_project", Len(user_projects) + 1)
    /\ hist' = Append(hist, [log |-> <<>>, pure |-> TRUE])
    /\ run' = NoRun
    /\ UNCHANGED <<now, heap, shared>>

RECURSIVE GetAllLoop(_, _)
\* The loop of User.get_all_tasks from project i on, with the list built so far.
GetAllLoop(i, acc) ==
    IF i > Len(user_projects)
    THEN acc
    ELSE GetAllLoop(i + 1, acc \o ProjectTasks(i).val)

\* Variant: each project replaces the list instead of extending it.
GetAllTasksLastOnly ==
    IF user_projects = <<>> THEN <<>>
    ELSE ProjectTasks(Len(user_projects)).val

GetAllTasks == GetAllLoop(1, <<>>)

\* Variant: a task due exactly now counts as overdue.
IsOverdueInclusive(task, clock) ==
    /\ task.due_date # None
    /\ ~task.is_done
    /\ task.due_date[1] <= clock

\* The test of User.get_overdue_tasks.
IsOverdue(task, clock) ==
    /\ task.due_date # None
    /\ ~task.is_done
    /\ task.due_date[1] < clock

RECURSIVE OverdueLoop(_, _, _, _)
OverdueLoop(all, i, clock, overdue) ==
    IF i > Len(all)
    THEN overdue
    ELSE OverdueLoop(all, i + 1, clock,
                     IF IsOverdue(heap[all[i]], clock)
                     THEN Append(overdue, all[i])
                     ELSE overdue)

GetOverdueTasks(clock) == OverdueLoop(GetAllTasks, 1, clock, <<>>)

\* Variant: the argument is validated as in set_priority.
GetTasksByPriorityValidated(priority) ==
    IF priority \notin Allowed
    THEN [raised |-> TRUE, val |-> <<>>]
    ELSE [raised |-> FALSE,
          val |-> SelectSeq(GetAllTasks, LAMBDA r : heap[r].priority = priority)]

GetTasksByPriority(priority) ==
    [raised |-> FALSE,
     val |-> SelectSeq(GetAllTasks, LAMBDA r : heap[r].priority = priority)]

get_all_tasks ==
    /\ ret' = Ret("get_all_tasks", 0, "", 0, GetAllTasks, FALSE, 0, "")
    /\ run' = NoRun
    /\ UNCHANGED <<now, heap, user_projects, hist, shared>>

get_overdue_tasks ==
    /\ ret' = Ret("get_overdue_tasks", 0, "", 0, GetOverdueTasks(now), FALSE, 0, "")
    /\ run' = NoRun
    /\ UNCHANGED <<now, heap, user_projects, hist, shared>>

get_tasks_by_priority(priority) ==
    /\ LET r == GetTasksByPriority(priority)
       IN ret' = Ret("get_tasks_by_priority", 0, priority, 0, r.val, r.raised, 0, "")
    /\ run' = NoRun
    /\ UNCHANGED <<now, heap, user_projects, hist, shared>>

\* ------------------------------------------------------- specifications
\* The object graph: projects, their task lists and the reads of them.  Any
\* Task may be given to any Project, any number of times.
Next ==
    \/ \E p \in {"Medium", "Urgent"} : TaskInit("T1", "D1", p, None)
    \/ \E t \in 1..MaxTasks : mark_as_done(t)
    \/ create_project("P", "")
    \/ \E p \in 1..MaxProjects, t \in 1..MaxTasks : add_task(p, t)
    \/ \E p \in 1..MaxProjects, id \in 1..MaxTasks : remove_task(p, id)
    \/ \E p \in 1..MaxProjects : read_tasks(p)
    \/ MutateReturned
    \/ get_all_tasks

Spec == Init /\ [][Next]_vars

\* The queries over the tasks' fields, with the clock running.  A Task is given
\* to a Project once, as cli_app does with the Task it has just constructed.
NextQuery ==
    \/ \E p \in PriorityInputs, due \in DueDates : TaskInit("T1", "D1", p, due)
    \/ \E t \in 1..MaxTasks : mark_as_done(t)
    \/ \E t \in 1..MaxTasks : reopen(t)
    \/ \E t \in 1..MaxTasks, due \in DueDates : update_due_date(t, due)
    \/ create_project("P", "")
    \/ \E p \in 1..MaxProjects, t \in 1..MaxTasks : t \notin Owned /\ add_task(p, t)
    \/ get_overdue_tasks
    \/ \E p \in PriorityInputs : get_tasks_by_priority(p)
    \/ Tick

SpecQuery == Init /\ [][NextQuery]_vars

\* ------------------------------------------------------- Task properties
\* C1: the priority of every existing Task is one of Low, Medium, High, and
\* constructing a Task with an allowed priority P, or set_priority(P), succeeds
\* and the priority then reads P.
C1_PriorityAlwaysAllowed ==
    /\ \A t \in DOMAIN heap : heap[t].priority \in Allowed
    /\ (ret.op \in {"Task", "set_priority"} /\ ret.prio \in Allowed)
          => /\ ~ret.raised
             /\ ret.obj \in DOMAIN heap
             /\ heap[ret.obj].priority = ret.prio

C1_Witness ==
    /\ ret.op = "set_priority"
    /\ ret.prio = "High"
    /\ ~ret.raised
    /\ \E t \in DOMAIN heap : t # ret.obj /\ heap[t].priority = "Low"

\* C2: with a priority outside the allowed set, construction raises and no
\* Task comes into existence, and set_priority raises and leaves every field
\* of every Task (and every project) as it was.
C2_InvalidPriorityRejected ==
    [][(ret'.op \in {"Task", "set_priority"} /\ ret'.prio \notin Allowed)
          => /\ ret'.raised
             /\ heap' = heap
             /\ user_projects' = user_projects]_vars

C2_Witness ==
    /\ ret.op = "set_priority"
    /\ ret.raised
    /\ heap[ret.obj].is_done
    /\ heap[ret.obj].priority = "High"
    /\ Len(heap) = MaxTasks

\* C7: one or more mark_as_done calls followed by one or more reopen calls
\* leave is_done false and completed_at None; repeated mark_as_done calls keep
\* is_done true and completed_at is the time of the latest of them.
C7_MarkThenReopen ==
    run.task # 0 =>
       /\ (run.marks >= 1 /\ run.reopens >= 1)
             => /\ ~heap[run.task].is_done
                /\ heap[run.task].completed_at = None
       /\ (run.marks >= 1 /\ run.reopens = 0)
             => /\ heap[run.task].is_done
                /\ heap[run.task].completed_at = Some(run.last)

\* Two marks at different times, then two reopens.
C7_Witness ==
    /\ run.task # 0
    /\ run.marks >= 2
    /\ run.reopens >= 2
    /\ run.first < run.last

\* C10: completed_at is set exactly when is_done is true, and a freshly
\* constructed Task is not done and has no completed_at.
C10_CompletedIffDone ==
    /\ \A t \in DOMAIN heap : (heap[t].completed_at # None) <=> heap[t].is_done
    /\ (ret.op = "Task" /\ ~ret.raised)
          => /\ ~heap[ret.obj].is_done
             /\ heap[ret.obj].completed_at = None

C10_Witness ==
    /\ ret.op = "reopen"
    /\ heap[ret.obj].completed_at = None
    /\ \E t \in DOMAIN heap : heap[t].is_done /\ heap[t].completed_at = Some(now)
    /\ now > 0
\* ---------------------------------------------- Project / User properties
TasksOf(p) == user_projects[p]._tasks

RECURSIVE FlatUpTo(_)
\* The task lists of projects 1..n, one after the other.
FlatUpTo(n) == IF n = 0 THEN <<>> ELSE FlatUpTo(n - 1) \o TasksOf(n)

\* C3, as stated: no Task is in the task lists of two different Projects.
C3_NoTaskInTwoProjects ==
    \A p, q \in DOMAIN user_projects :
        p # q => Range(TasksOf(p)) \cap Range(TasksOf(q)) = {}

\* C3, amended: as long as no add_task call was given a Task that some Project
\* held at that moment, no Task is in the task lists of two different Projects.
C3_ExclusiveIfAddedUnowned == ~shared => C3_NoTaskInTwoProjects

\* A task was removed from project 1 and then given to project 2.
C3_Witness ==
    /\ ~shared
    /\ ret.op = "add_task"
    /\ ret.obj = 2
    /\ ~hist[1].pure
    /\ TasksOf(1) # <<>>
    /\ Len(TasksOf(2)) = 1
    /\ TasksOf(2)[1] = 1

\* C4: remove_task(id) deletes exactly the first element whose id matches and
\* keeps the others in their order; with no match it prints the notice and
\* changes nothing; it does not raise, and every other project keeps its list.
C4_RemoveFirstMatch ==
    [][\A p \in DOMAIN user_projects :
          (ret'.op = "remove_task" /\ ret'.obj = p) =>
             LET old == user_projects[p]._tasks
                 new == user_projects'[p]._tasks
                 M == {i \in DOMAIN old : heap[old[i]].id = ret'.id}
             IN /\ ~ret'.raised
                /\ DOMAIN user_projects' = DOMAIN user_projects
                /\ \A q \in DOMAIN user_projects :
                      q # p => user_projects'[q] = user_projects[q]
                /\ M = {} => (new = old /\ ret'.out = "not found")
                /\ M # {} =>
                      LET k == CHOOSE i \in M : \A j \in M : i <= j
                      IN /\ Len(new) = Len(old) - 1
                         /\ \A i \in 1..(k - 1) : new[i] = old[i]
                         /\ \A i \in k..(Len(old) - 1) : new[i] = old[i + 1]
                         /\ ret'.out = ""]_vars

\* The removed id is still in the list, behind another task: the list held it
\* more than once and lost one occurrence.
C4_Witness ==
    /\ ret.op = "remove_task"
    /\ ret.out = ""
    /\ Len(TasksOf(ret.obj)) = 2
    /\ heap[TasksOf(ret.obj)[1]].id # ret.id
    /\ heap[TasksOf(ret.obj)[2]].id = ret.id

\* C5: get_all_tasks returns the task lists of the user's projects, projects
\* in creation order and tasks in insertion order, as they are at the call.
C5_GetAllTasksIsFlattening ==
    ret.op = "get_all_tasks" =>
       /\ ~ret.raised
       /\ ret.val = FlatUpTo(Len(user_projects))

\* P1 = [t1, t2], P2 = [t2], after a removal and with a task marked done.
C5_Witness ==
    /\ ret.op = "get_all_tasks"
    /\ Len(user_projects) = 2
    /\ TasksOf(1) = <<1, 2>>
    /\ TasksOf(2) = <<2>>
    /\ ~hist[2].pure
    /\ heap[1].is_done
    /\ ret.val = <<1, 2, 2>>

\* C6: at query time now, get_overdue_tasks holds a task of the user exactly
\* when its due_date is set and strictly before now and it is not done.
C6_OverdueIff ==
    ret.op = "get_overdue_tasks" =>
       /\ Range(ret.val) \subseteq Owned
       /\ \A t \in Owned :
             t \in Range(ret.val) <=>
                /\ heap[t].due_date # None
                /\ heap[t].due_date[1] < now
                /\ ~heap[t].is_done

\* One task is listed, another with a past due date is not (it is done).
C6_Witness ==
    /\ ret.op = "get_overdue_tasks"
    /\ ret.val # <<>>
    /\ \E u \in Owned :
          /\ u \notin Range(ret.val)
          /\ heap[u].due_date # None
          /\ heap[u].due_date[1] < now

\* C8: the tasks of a Project that only had tasks added read as those tasks in
\* the order they were added, and changing the returned list changes no
\* Project.
C8_TasksIsACopy ==
    /\ [](ret.op = "tasks" =>
             /\ ret.val = TasksOf(ret.obj)
             /\ hist[ret.obj].pure => ret.val = hist[ret.obj].log)
    /\ [][ret'.op = "mutate" => user_projects' = user_projects]_vars

C8_Witness ==
    /\ ret.op = "mutate"
    /\ hist[ret.obj].pure
    /\ Len(hist[ret.obj].log) = MaxLen
    /\ TasksOf(ret.obj) = hist[ret.obj].log
    /\ \E i, j \in DOMAIN TasksOf(ret.obj) : TasksOf(ret.obj)[i] # TasksOf(ret.obj)[j]

\* C9: get_tasks_by_priority(p) returns the tasks of get_all_tasks whose
\* priority is p, in that order; for a string that is no priority it returns
\* the empty list without raising; it changes no Task and no Project.
C9_ByPriorityFilters ==
    /\ [](ret.op = "get_tasks_by_priority" =>
             /\ ~ret.raised
             /\ ret.val = SelectSeq(FlatUpTo(Len(user_projects)),
                                    LAMBDA r : heap[r].priority = ret.prio)
             /\ ret.prio \notin Allowed => ret.val = <<>>)
    /\ [][ret'.op = "get_tasks_by_priority" =>
             heap' = heap /\ user_projects' = user_projects]_vars

C9_Witness ==
    /\ ret.op = "get_tasks_by_priority"
    /\ ret.prio = "Medium"
    /\ ret.val # <<>>
    /\ \E u \in Owned : heap[u].priority = "High"
====
